---------------------------- MODULE Spec2Model ----------------------------
(***************************************************************************)
(* A model of generate_epg.py: the pipeline                                *)
(*   fetch -> response.json() -> create_xmltv -> save_xmltv_file           *)
(* run once by main(), and the timestamp converter unix_to_xmltv.          *)
(*                                                                         *)
(* JSON values are tagged records (see Val).  The entries of the lists     *)
(* `channels` and `program` are read one at a time, in list order, when    *)
(* the corresponding `for` loop binds its loop variable: a behaviour of    *)
(* Spec is a run of main() on the input made of the entries it read.       *)
(***************************************************************************)
EXTENDS Integers, Sequences, FiniteSets, TLC

VARIABLES
    pc,             \* position in main() (in ConvSpec, RecSpec: of the one call)
    response,       \* outcome of requests.get + raise_for_status
    data,           \* shape of the decoded top-level JSON value
    tv,             \* children of the root <tv> element, in document order
    channel_count,  \* create_xmltv's local
    program_count,  \* create_xmltv's local
    channel_id,     \* create_xmltv's local (of the channel being processed)
    ci,             \* number of entries of data["channels"] consumed
    pi,             \* number of entries of the current `program` list consumed
    warnings,       \* summary warnings logged at lines 110-113
    xmltv_tree,     \* main's local: what create_xmltv returned
    exc,            \* the exception that left create_xmltv uncaught, if any
    written,        \* outcome of save_xmltv_file
    file,           \* state of OUTPUT_FILE on disk
    exit_status,    \* process exit status ("running" until the process ends)
    timestamp,      \* ConvSpec: the argument of unix_to_xmltv
    conv_result,    \* ConvSpec: what unix_to_xmltv did with it
    program,        \* RecSpec: the entry of a `program` list
    outcome         \* RecSpec: what lines 62-107 did with it

vars == <<pc, response, data, tv, channel_count, program_count, channel_id,
          ci, pi, warnings, xmltv_tree, exc, written, file, exit_status,
          timestamp, conv_result, program, outcome>>

\* The variables of the single-call specifications ConvSpec and RecSpec.
harness == <<timestamp, conv_result, program, outcome>>

\* Bounds of the model: the lengths of `channels` and of a `program` list,
\* and the largest timestamp magnitude ConvSpec draws.
MaxChannels == 2
MaxPrograms == 1
MaxTimestamp == 12

-----------------------------------------------------------------------------
(* JSON / Python values.                                                   *)
(*   t    : "null" "bool" "int" "float" "str" "list" "dict"                *)
(*   n    : the integer (int, bool), or the integer part of a float        *)
(*   frac : first decimal digit of a float, signed like the value          *)
(*   s    : the characters of a str, as a sequence of 1-character strings  *)
(*   mag  : "fin" for a number the model holds exactly; otherwise the      *)
(*          class of a number too large to hold:                           *)
(*            "year"   beyond year 9999, gmtime() still succeeds           *)
(*            "gmtime" within time_t, gmtime() fails with EOVERFLOW        *)
(*            "time_t" beyond the platform time_t                          *)
(*            "nan" "inf" the float specials                               *)

Val(t, n, frac, s, mag) == [t |-> t, n |-> n, frac |-> frac, s |-> s, mag |-> mag]

Null        == Val("null", 0, 0, <<>>, "fin")
PyBool(b)   == Val("bool", IF b THEN 1 ELSE 0, 0, <<>>, "fin")
PyIntV(n)   == Val("int", n, 0, <<>>, "fin")
PyBigInt(m) == Val("int", 0, 0, <<>>, m)
PyFloatV(n, f) == Val("float", n, f, <<>>, "fin")
PyNaN       == Val("float", 0, 0, <<>>, "nan")
PyInf       == Val("float", 0, 0, <<>>, "inf")
PyStrV(s)   == Val("str", 0, 0, s, "fin")
PyList      == Val("list", 0, 0, <<>>, "fin")
PyDict      == Val("dict", 0, 0, <<>>, "fin")

Digits == <<"0", "1", "2", "3", "4", "5", "6", "7", "8", "9">>

IsDigit(c) == \E d \in 1..10 : Digits[d] = c

DigitValue(c) == (CHOOSE d \in 1..10 : Digits[d] = c) - 1

\* Code point order of the characters the model uses (digits sort before
\* upper-case letters, which sort before lower-case letters).
Ord(c) == IF IsDigit(c) THEN DigitValue(c)
          ELSE CASE c = " " -> -1
                 [] c = "-" -> -2
                 [] c = "A" -> 20
                 [] c = "B" -> 21
                 [] c = "D" -> 22
                 [] c = "N" -> 23
                 [] c = "a" -> 30
                 [] c = "d" -> 31
                 [] c = "e" -> 32
                 [] c = "n" -> 33
                 [] c = "o" -> 34
                 [] OTHER   -> 40

\* str < str: lexicographic by code point.
RECURSIVE StrLess(_, _)
StrLess(a, b) ==
    IF b = <<>> THEN FALSE
    ELSE IF a = <<>> THEN TRUE
    ELSE IF Ord(Head(a)) # Ord(Head(b)) THEN Ord(Head(a)) < Ord(Head(b))
    ELSE StrLess(Tail(a), Tail(b))

\* The decimal digits of a natural number.
RECURSIVE NatDigits(_)
NatDigits(n) ==
    IF n < 10 THEN <<Digits[n + 1]>>
    ELSE Append(NatDigits(n \div 10), Digits[(n % 10) + 1])

\* str(x), for the values the model passes to it.
PyStr(v) ==
    CASE v.t = "str"  -> v.s
      [] v.t = "int"  -> IF v.n < 0 THEN <<"-">> \o NatDigits(-v.n) ELSE NatDigits(v.n)
      [] v.t = "null" -> <<"N", "o", "n", "e">>
      [] OTHER        -> <<"o">>

\* The value of a string of decimal digits.
RECURSIVE ParseDigits(_, _)
ParseDigits(s, acc) ==
    IF s = <<>> THEN acc
    ELSE ParseDigits(Tail(s), acc * 10 + DigitValue(Head(s)))

-----------------------------------------------------------------------------
(* unix_to_xmltv, lines 20-28.                                             *)

\* A number, or the exception raised on the way to it.
Num(n, frac, mag) == [exc |-> "none", n |-> n, frac |-> frac, mag |-> mag]
Raise(e)          == [exc |-> e, n |-> 0, frac |-> 0, mag |-> "fin"]

\* str.strip(): without leading and trailing spaces.
RECURSIVE LStrip(_)
LStrip(s) == IF s # <<>> /\ Head(s) = " " THEN LStrip(Tail(s)) ELSE s

RECURSIVE RStrip(_)
RStrip(s) ==
    IF s # <<>> /\ s[Len(s)] = " " THEN RStrip(SubSeq(s, 1, Len(s) - 1)) ELSE s

Strip(s) == RStrip(LStrip(s))

\* float(timestamp).  A str parses when, surrounding spaces apart, it is a
\* non-empty run of decimal digits (the only numeric strings the model
\* draws: no sign, point or exponent).
PyFloat(v) ==
    CASE v.t \in {"null", "list", "dict"} -> Raise("TypeError")
      [] v.t \in {"bool", "int", "float"} -> Num(v.n, v.frac, v.mag)
      [] v.t = "str" ->
            LET d == Strip(v.s)
            IN  IF d # <<>> /\ \A i \in 1..Len(d) : IsDigit(d[i])
                THEN Num(ParseDigits(d, 0), 0, "fin")
                ELSE Raise("ValueError")

\* int(f): truncation toward zero.
PyInt(f) ==
    CASE f.exc # "none" -> f
      [] f.mag = "nan"  -> Raise("ValueError")
      [] f.mag = "inf"  -> Raise("OverflowError")
      [] OTHER          -> Num(f.n, 0, f.mag)

\* datetime.utcfromtimestamp(i).
utcfromtimestamp(i) ==
    CASE i.exc # "none"   -> i
      [] i.mag = "year"   -> Raise("ValueError")
      [] i.mag = "gmtime" -> Raise("OSError")
      [] i.mag = "time_t" -> Raise("OverflowError")
      [] OTHER            -> i

\* strftime('%Y%m%d%H%M%S') + " +0000": the UTC day and time of day of the
\* second, and the literal offset.
strftime(secs) ==
    <<secs \div 86400, (secs % 86400) \div 3600, (secs % 3600) \div 60,
      secs % 60, "+0000">>

\* except (ValueError, TypeError, OverflowError), line 26.
CaughtExceptions == {"ValueError", "TypeError", "OverflowError"}

Returned(stamp) == [kind |-> "value", stamp |-> stamp, exc |-> "none"]
ReturnedNone    == [kind |-> "None", stamp |-> <<>>, exc |-> "none"]
Raised(e)       == [kind |-> "raise", stamp |-> <<>>, exc |-> e]

unix_to_xmltv(ts) ==
    LET dt == utcfromtimestamp(PyInt(PyFloat(ts)))
    IN  IF dt.exc = "none" THEN Returned(strftime(dt.n))
        ELSE IF dt.exc \in CaughtExceptions THEN ReturnedNone
        ELSE Raised(dt.exc)


-----------------------------------------------------------------------------
(* Python operators used by create_xmltv.                                  *)

IsNumber(v) == v.t \in {"bool", "int", "float"}

\* a < b for two numbers the model holds exactly: the value is
\* n + frac/10, with frac signed like the value.
NumLess(a, b) == a.n < b.n \/ (a.n = b.n /\ a.frac < b.frac)

\* Whether `a >= b` evaluates at all: a str and a number are unorderable
\* (TypeError), as are two dicts.
PyComparable(a, b) ==
    \/ IsNumber(a) /\ IsNumber(b)
    \/ a.t = "str" /\ b.t = "str"
    \/ a.t = "list" /\ b.t = "list"

\* a >= b, line 84: numbers by value, strings by code point.
PyGE(a, b) ==
    IF IsNumber(a) THEN ~NumLess(a, b)
    ELSE IF a.t = "str" THEN ~StrLess(a.s, b.s)
    ELSE TRUE

\* bool(x).
PyTruthy(v) ==
    CASE v.t = "null" -> FALSE
      [] v.t = "str"  -> v.s # <<>>
      [] v.t \in {"bool", "int"} -> v.n # 0
      [] OTHER -> TRUE

-----------------------------------------------------------------------------
(* The document: the children of <tv>, each a record                       *)
(*   tag      "channel" or "programme"                                     *)
(*   id       channel: the id attribute                                    *)
(*   name     channel: the text given to <display-name> (a value, as is)   *)
(*   channel, start, stop   programme: its attributes                      *)
(*   title, desc            programme: the texts of its children           *)
(*                          (desc <<>>: no <desc> child)                   *)

ChannelElem(id, name) ==
    [tag |-> "channel", id |-> id, name |-> name, channel |-> <<>>,
     start |-> <<>>, stop |-> <<>>, title |-> <<>>, desc |-> <<>>]

ProgrammeElem(start, stop, channel, title, desc) ==
    [tag |-> "programme", id |-> <<>>, name |-> Null, channel |-> channel,
     start |-> start, stop |-> stop, title |-> title, desc |-> desc]

\* A slip: the new element becomes the first child.
SubElement_First(parent, elem) == <<elem>> \o parent

\* ET.SubElement(tv, ...): the new element becomes the last child.
SubElement(parent, elem) == Append(parent, elem)

\* channel_id = str(channel["_id"]), line 49.
ChannelId(ch) == PyStr(ch._id)

\* A slip: the test forgets "name".
ValidChannel_IdOnly(ch) == ch.isdict /\ "_id" \in ch.keys

\* The test of line 45, negated: the entry is processed.
ValidChannel(ch) == ch.isdict /\ "_id" \in ch.keys /\ "name" \in ch.keys

\* Lines 62-107 for one entry of `programs`: the entry is skipped, a
\* programme element is emitted, or an exception leaves create_xmltv.
Skip     == [kind |-> "skip", elem |-> <<>>, exc |-> "none"]
Emit(e)  == [kind |-> "emit", elem |-> e, exc |-> "none"]
Abort(x) == [kind |-> "raise", elem |-> <<>>, exc |-> x]

ProcessProgram(entry, cid) ==
    LET start_ts    == entry.starts_at
        end_ts      == entry.ends_at
        title       == entry.program_title
        description == entry.program_description
        start_xmltv == unix_to_xmltv(start_ts)
        stop_xmltv  == unix_to_xmltv(end_ts)
    IN  IF ~entry.isdict THEN Skip
        ELSE IF start_ts = Null \/ end_ts = Null \/ title = Null THEN Skip
        ELSE IF start_xmltv.kind = "raise" THEN Abort(start_xmltv.exc)
        ELSE IF stop_xmltv.kind = "raise" THEN Abort(stop_xmltv.exc)
        ELSE IF start_xmltv.kind = "None" \/ stop_xmltv.kind = "None" THEN Skip
        ELSE IF ~PyComparable(start_ts, end_ts) THEN Abort("TypeError")
        ELSE IF PyGE(start_ts, end_ts) THEN Skip
        ELSE Emit(ProgrammeElem(start_xmltv.stamp, stop_xmltv.stamp, cid,
                                PyStr(title),
                                IF PyTruthy(description)
                                   /\ Strip(PyStr(description)) # <<>>
                                THEN PyStr(description) ELSE <<>>))

\* xml_tree.write: a text that is neither a str nor None cannot be
\* serialized.  Attributes, titles and descriptions went through str().
Serializable(tree) ==
    \A i \in 1..Len(tree) :
        tree[i].tag = "channel" => tree[i].name.t \in {"str", "null"}

\* A slip: the result of create_xmltv is not tested.
Truthy_Always(tree) == tree \in {"tree", "None"}

\* `if xmltv_tree:`, line 159.
Truthy(tree) == tree = "tree"

-----------------------------------------------------------------------------
(* The inputs.                                                             *)

\* The shapes of the decoded JSON value that line 32 tells apart.
TopShapes == {"not_dict", "no_channels", "channels_not_list", "channels_list"}

IdValues   == {PyIntV(42), PyStrV(<<"4", "2">>), PyStrV(<<"7">>)}
NameValues == {PyStrV(<<"D">>), PyIntV(5)}

\* An entry of `channels`.  A key that is absent has the value Null here.
ChannelEntries ==
    {[isdict |-> FALSE, keys |-> {}, _id |-> Null, name |-> Null, program |-> "absent"]}
    \cup
    {[isdict |-> TRUE, keys |-> k,
      _id  |-> IF "_id" \in k THEN i ELSE Null,
      name |-> IF "name" \in k THEN n ELSE Null,
      program |-> p] :
        k \in SUBSET {"_id", "name"}, i \in IdValues, n \in NameValues,
        p \in {"absent", "list", "not_list"}}

\* An entry that is not an object.
NoProgram ==
    [isdict |-> FALSE, starts_at |-> Null, ends_at |-> Null,
     program_title |-> Null, program_description |-> Null]

TsValues ==
    {Null, PyIntV(99), PyIntV(100), PyStrV(<<"1", "0", "0">>), PyStrV(<<"a">>)}
TitleValues == {Null, PyStrV(<<"A">>)}
DescValues  == {Null, PyStrV(<<" ">>), PyStrV(<<"d">>)}

\* An entry of a `program` list.  dict.get gives None for an absent key
\* and for a null value alike.
ProgramEntries ==
    {NoProgram}
    \cup
    {[isdict |-> TRUE, starts_at |-> s, ends_at |-> e,
      program_title |-> t, program_description |-> d] :
        s \in TsValues, e \in TsValues, t \in TitleValues, d \in DescValues}

-----------------------------------------------------------------------------
(* main(), lines 132-163, with create_xmltv and save_xmltv_file inlined.   *)

NotCalled == [kind |-> "not_called", stamp |-> <<>>, exc |-> "none"]

NotProcessed == [kind |-> "not_processed", elem |-> <<>>, exc |-> "none"]

Init ==
    /\ pc = "fetch"
    /\ response = "pending"
    /\ data = "unset"
    /\ tv = <<>>
    /\ channel_count = 0
    /\ program_count = 0
    /\ channel_id = <<>>
    /\ ci = 0
    /\ pi = 0
    /\ warnings = {}
    /\ xmltv_tree = "unset"
    /\ exc = "none"
    /\ written = "pending"
    /\ file = "old"
    /\ exit_status = "running"
    /\ timestamp = Null
    /\ conv_result = NotCalled
    /\ program = NoProgram
    /\ outcome = NotProcessed

\* sys.exit(status), or the interpreter ending after main() returns (0) or
\* after an uncaught exception (1).
Exit(status) == pc' = "done" /\ exit_status' = status

\* Lines 140-141 succeed.
FetchOk ==
    /\ pc = "fetch"
    /\ response' = "ok"
    /\ pc' = "decode"
    /\ UNCHANGED <<data, tv, channel_count, program_count, channel_id, ci, pi,
                   warnings, xmltv_tree, exc, written, file, exit_status,
                   harness>>

\* Lines 143-145: a RequestException (transport error, timeout, or the
\* HTTPError raise_for_status raises for a 4xx/5xx status).
FetchFail ==
    /\ pc = "fetch"
    /\ \E e \in {"ConnectionError", "Timeout", "HTTPError"} : response' = e
    /\ Exit("1")
    /\ UNCHANGED <<data, tv, channel_count, program_count, channel_id, ci, pi,
                   warnings, xmltv_tree, exc, written, file,
                   harness>>

\* Line 150 succeeds.
DecodeOk ==
    /\ pc = "decode"
    /\ \E shape \in TopShapes : data' = shape
    /\ pc' = "create_xmltv"
    /\ UNCHANGED <<response, tv, channel_count, program_count, channel_id, ci, pi,
                   warnings, xmltv_tree, exc, written, file, exit_status,
                   harness>>

\* Lines 151-155: response.json() raises ValueError.
DecodeFail ==
    /\ pc = "decode"
    /\ data' = "undecodable"
    /\ Exit("1")
    /\ UNCHANGED <<response, tv, channel_count, program_count, channel_id, ci, pi,
                   warnings, xmltv_tree, exc, written, file,
                   harness>>

\* Lines 32-34.
CreateReject ==
    /\ pc = "create_xmltv"
    /\ data # "channels_list"
    /\ xmltv_tree' = "None"
    /\ pc' = "check_tree"
    /\ UNCHANGED <<response, data, tv, channel_count, program_count, channel_id,
                   ci, pi, warnings, exc, written, file, exit_status,
                   harness>>

\* Lines 36-42.
CreateBegin ==
    /\ pc = "create_xmltv"
    /\ data = "channels_list"
    /\ tv' = <<>>
    /\ channel_count' = 0
    /\ program_count' = 0
    /\ pc' = "channel_loop"
    /\ UNCHANGED <<response, data, channel_id, ci, pi, warnings, xmltv_tree, exc,
                   written, file, exit_status, harness>>

\* Lines 44-60: the loop binds `channel` to the next entry.  A `program`
\* that is absent defaults to [] (no iteration); one that is not a list is
\* skipped with a warning.
ChannelIter(channel) ==
    /\ pc = "channel_loop"
    /\ ci < MaxChannels
    /\ ci' = ci + 1
    /\ IF ~ValidChannel(channel)
       THEN /\ pc' = "channel_loop"
            /\ UNCHANGED <<tv, channel_count, channel_id, pi>>
       ELSE /\ channel_id' = ChannelId(channel)
            /\ tv' = SubElement(tv, ChannelElem(ChannelId(channel), channel.name))
            /\ channel_count' = channel_count + 1
            /\ pi' = 0
            /\ pc' = IF channel.program = "list" THEN "program_loop"
                     ELSE "channel_loop"
    /\ UNCHANGED <<response, data, program_count, warnings, xmltv_tree, exc,
                   written, file, exit_status, harness>>

\* Lines 62-107: the inner loop binds `program` to the next entry.
ProgramIter(entry) ==
    /\ pc = "program_loop"
    /\ pi < MaxPrograms
    /\ pi' = pi + 1
    /\ LET r == ProcessProgram(entry, channel_id)
       IN  CASE r.kind = "skip" ->
                    /\ pc' = "program_loop"
                    /\ UNCHANGED <<tv, program_count, exc, exit_status>>
             [] r.kind = "emit" ->
                    /\ tv' = SubElement(tv, r.elem)
                    /\ program_count' = program_count + 1
                    /\ pc' = "program_loop"
                    /\ UNCHANGED <<exc, exit_status>>
             [] r.kind = "raise" ->
                    /\ exc' = r.exc
                    /\ Exit("1")
                    /\ UNCHANGED <<tv, program_count>>
    /\ UNCHANGED <<response, data, channel_count, channel_id, ci, warnings,
                   xmltv_tree, written, file, harness>>

\* The `program` list is exhausted.
ProgramsDone ==
    /\ pc = "program_loop"
    /\ pc' = "channel_loop"
    /\ UNCHANGED <<response, data, tv, channel_count, program_count, channel_id,
                   ci, pi, warnings, xmltv_tree, exc, written, file, exit_status,
                   harness>>

\* Lines 109-115: `channels` is exhausted.
SummaryWarnings(nc, np) ==
    (IF nc = 0 THEN {"no_channels"} ELSE {}) \cup
    (IF np = 0 THEN {"no_programs"} ELSE {})

ChannelsDone ==
    /\ pc = "channel_loop"
    /\ warnings' = SummaryWarnings(channel_count, program_count)
    /\ xmltv_tree' = "tree"
    /\ pc' = "check_tree"
    /\ UNCHANGED <<response, data, tv, channel_count, program_count, channel_id,
                   ci, pi, exc, written, file, exit_status, harness>>

\* Lines 159-160.
CheckTreeSave ==
    /\ pc = "check_tree"
    /\ Truthy(xmltv_tree)
    /\ pc' = "save"
    /\ UNCHANGED <<response, data, tv, channel_count, program_count, channel_id,
                   ci, pi, warnings, xmltv_tree, exc, written, file, exit_status,
                   harness>>

\* A slip: the failure is logged and main() returns normally.
CheckTreeFail_NoExit ==
    /\ pc = "check_tree"
    /\ ~Truthy(xmltv_tree)
    /\ Exit("0")
    /\ UNCHANGED <<response, data, tv, channel_count, program_count, channel_id,
                   ci, pi, warnings, xmltv_tree, exc, written, file,
                   harness>>

\* Lines 161-163.
CheckTreeFail ==
    /\ pc = "check_tree"
    /\ ~Truthy(xmltv_tree)
    /\ Exit("1")
    /\ UNCHANGED <<response, data, tv, channel_count, program_count, channel_id,
                   ci, pi, warnings, xmltv_tree, exc, written, file,
                   harness>>

\* Lines 121-123, then main() returns.
SaveOk ==
    /\ pc = "save"
    /\ Serializable(tv)
    /\ written' = "ok"
    /\ file' = "new"
    /\ Exit("0")
    /\ UNCHANGED <<response, data, tv, channel_count, program_count, channel_id,
                   ci, pi, warnings, xmltv_tree, exc, harness>>

\* Lines 124-126: the file cannot be opened (left as it was) or a write to
\* it fails part-way.
SaveIOError ==
    /\ pc = "save"
    /\ written' = "IOError"
    /\ file' \in {"old", "partial"}
    /\ Exit("1")
    /\ UNCHANGED <<response, data, tv, channel_count, program_count, channel_id,
                   ci, pi, warnings, xmltv_tree, exc, harness>>

\* Lines 127-129: the serializer raises TypeError on a text it cannot
\* write, after the file was opened and truncated.
SaveUnexpected ==
    /\ pc = "save"
    /\ ~Serializable(tv)
    /\ written' = "TypeError"
    /\ file' = "partial"
    /\ Exit("1")
    /\ UNCHANGED <<response, data, tv, channel_count, program_count, channel_id,
                   ci, pi, warnings, xmltv_tree, exc, harness>>

Next ==
    \/ FetchOk
    \/ FetchFail
    \/ DecodeOk
    \/ DecodeFail
    \/ CreateReject
    \/ CreateBegin
    \/ \E channel \in ChannelEntries : ChannelIter(channel)
    \/ \E entry \in ProgramEntries : ProgramIter(entry)
    \/ ProgramsDone
    \/ ChannelsDone
    \/ CheckTreeSave
    \/ CheckTreeFail
    \/ SaveOk
    \/ SaveIOError
    \/ SaveUnexpected

Spec == Init /\ [][Next]_vars


-----------------------------------------------------------------------------
(* ConvSpec: one call of unix_to_xmltv on a drawn argument.                *)

ConvAlphabet == {"0", "1", "9", "a", " "}

ConvStrings ==
    {<<>>} \cup {<<a>> : a \in ConvAlphabet}
           \cup {<<a, b>> : a \in ConvAlphabet, b \in ConvAlphabet}

ConvInputs ==
    {PyIntV(n) : n \in (0 - MaxTimestamp)..MaxTimestamp}
    \cup {PyFloatV(n, f) : n \in 0..MaxTimestamp, f \in {0, 5}}
    \cup {PyStrV(x) : x \in ConvStrings}
    \cup {PyBigInt(m) : m \in {"year", "gmtime", "time_t"}}
    \cup {Null, PyList, PyDict, PyBool(TRUE), PyBool(FALSE), PyNaN, PyInf}

\* The state main() starts in, at position p.
IdleAt(p) ==
    /\ pc = p
    /\ response = "pending"
    /\ data = "unset"
    /\ tv = <<>>
    /\ channel_count = 0
    /\ program_count = 0
    /\ channel_id = <<>>
    /\ ci = 0
    /\ pi = 0
    /\ warnings = {}
    /\ xmltv_tree = "unset"
    /\ exc = "none"
    /\ written = "pending"
    /\ file = "old"
    /\ exit_status = "running"

ConvInit ==
    /\ IdleAt("conv_call")
    /\ timestamp \in ConvInputs
    /\ conv_result = NotCalled
    /\ program = NoProgram
    /\ outcome = NotProcessed

ConvCall ==
    /\ pc = "conv_call"
    /\ conv_result' = unix_to_xmltv(timestamp)
    /\ pc' = "conv_return"
    /\ UNCHANGED <<response, data, tv, channel_count, program_count, channel_id,
                   ci, pi, warnings, xmltv_tree, exc, written, file, exit_status,
                   timestamp, program, outcome>>

ConvNext == ConvCall

ConvSpec == ConvInit /\ [][ConvNext]_vars

-----------------------------------------------------------------------------
(* RecSpec: lines 62-107 applied to one drawn entry of a `program` list.   *)

RecTsValues ==
    {Null, PyIntV(99), PyIntV(100), PyFloatV(99, 5), PyFloatV(99, 9),
     PyStrV(<<"9", "9">>), PyStrV(<<"1", "0", "0">>), PyStrV(<<"a">>),
     PyBool(TRUE), PyList, PyNaN, PyInf,
     PyBigInt("year"), PyBigInt("gmtime"), PyBigInt("time_t")}

RecEntries ==
    {NoProgram}
    \cup
    {[isdict |-> TRUE, starts_at |-> s, ends_at |-> e,
      program_title |-> t, program_description |-> d] :
        s \in RecTsValues, e \in RecTsValues,
        t \in {Null, PyStrV(<<"A">>), PyIntV(7)},
        d \in {Null, PyStrV(<<>>), PyStrV(<<" ">>), PyStrV(<<"d">>)}}

RecChannelId == <<"4", "2">>

RecInit ==
    /\ IdleAt("rec_call")
    /\ timestamp = Null
    /\ conv_result = NotCalled
    /\ program \in RecEntries
    /\ outcome = NotProcessed

RecCall ==
    /\ pc = "rec_call"
    /\ outcome' = ProcessProgram(program, RecChannelId)
    /\ pc' = "rec_return"
    /\ UNCHANGED <<response, data, tv, channel_count, program_count, channel_id,
                   ci, pi, warnings, xmltv_tree, exc, written, file, exit_status,
                   timestamp, conv_result, program>>

RecNext == RecCall

RecSpec == RecInit /\ [][RecNext]_vars

-----------------------------------------------------------------------------
(* The claims.                                                             *)

Channels   == {i \in 1..Len(tv) : tv[i].tag = "channel"}
Programmes == {i \in 1..Len(tv) : tv[i].tag = "programme"}

\* An entry of `channels` that is not an object or lacks `_id` or `name`.
Malformed(ch) == ~ch.isdict \/ ~({"_id", "name"} \subseteq ch.keys)

\* The number a timestamp stands for, when it stands for one.
IsTimestamp(v) == PyFloat(v).exc = "none" /\ PyFloat(v).mag = "fin"

StartsBeforeEnd(entry) == NumLess(PyFloat(entry.starts_at), PyFloat(entry.ends_at))

\* C1: at every point of the build, each emitted programme's `channel`
\* attribute equals the `id` attribute of exactly one emitted channel
\* element.
C1_ReferentialIntegrity ==
    \A j \in Programmes :
        Cardinality({i \in Channels : tv[i].id = tv[j].channel}) = 1

\* C2: a programme is emitted only if both timestamps convert and the
\* start is strictly less than the end; a program whose starts_at >=
\* ends_at (integer, float or numeric string) is excluded.
C2_EmittedOnlyIfStartBeforeEnd ==
    pc = "rec_return" =>
        /\ outcome.kind = "emit" =>
              /\ unix_to_xmltv(program.starts_at).kind = "value"
              /\ unix_to_xmltv(program.ends_at).kind = "value"
              /\ StartsBeforeEnd(program)
        /\ ( /\ program.isdict
             /\ IsTimestamp(program.starts_at)
             /\ IsTimestamp(program.ends_at)
             /\ ~StartsBeforeEnd(program) ) => outcome.kind # "emit"

\* C3: whatever the entries of a list-valued `channels` hold, create_xmltv
\* raises nothing and returns a document, and, the write succeeding, the
\* process ends with status 0.
C3_RecordDefectsNeverAbort ==
    data = "channels_list" =>
        /\ exc = "none"
        /\ pc = "done" => xmltv_tree = "tree"
        /\ (pc = "done" /\ written = "ok") => exit_status = "0"

\* C4: the id of the channel element of a valid entry, and the `channel`
\* attribute of each of its programmes, is "LN_" followed by str(_id).
\* The prefix is the one the specification names; the source has none.
IdPrefix == <<"L", "N", "_">>

C4_PrefixedChannelId ==
    [][ /\ \A ch \in ChannelEntries :
              (pc = "channel_loop" /\ ~Malformed(ch) /\ ChannelIter(ch)) =>
                  /\ Len(tv') = Len(tv) + 1
                  /\ tv'[Len(tv')].tag = "channel"
                  /\ tv'[Len(tv')].id = IdPrefix \o PyStr(ch._id)
                  /\ channel_id' = IdPrefix \o PyStr(ch._id)
        /\ (pc = "program_loop" /\ Len(tv') > Len(tv)) =>
              tv'[Len(tv')].channel = channel_id
      ]_vars

C6_NoWriteWithoutDocument ==
    /\ xmltv_tree = "None" => (file = "old" /\ written = "pending" /\ pc # "save")
    /\ (pc = "save" \/ written # "pending" \/ file # "old") =>
          /\ response = "ok"
          /\ data \in TopShapes
          /\ xmltv_tree = "tree"

C6_Witness ==
    /\ pc = "done"
    /\ data = "no_channels"
    /\ xmltv_tree = "None"
    /\ file = "old"
    /\ exit_status = "1"

\* C7: a malformed entry of `channels` adds no element (no channel element,
\* and its `program` list is not entered), and a valid entry is emitted as
\* the next element whatever was skipped before it.
C7_MalformedChannelSkipped ==
    [][ \A ch \in ChannelEntries :
            (pc = "channel_loop" /\ ChannelIter(ch)) =>
                IF Malformed(ch)
                THEN /\ tv' = tv
                     /\ channel_count' = channel_count
                     /\ program_count' = program_count
                     /\ pc' = "channel_loop"
                     /\ exit_status' = "running"
                ELSE /\ Len(tv') = Len(tv) + 1
                     /\ SubSeq(tv', 1, Len(tv)) = tv
                     /\ tv'[Len(tv')].tag = "channel"
                     /\ tv'[Len(tv')].id = PyStr(ch._id)
      ]_vars

\* C7's case: the first entry was skipped, and the second, valid, entry is
\* being processed and has emitted its channel element and a programme.
C7_Witness ==
    /\ pc = "program_loop"
    /\ ci = 2
    /\ channel_count = 1
    /\ program_count = 1
    /\ Len(tv) = 2

\* C8: unix_to_xmltv returns None, and raises nothing, for every argument
\* that is not parsable as a number or is out of the date range.
Unconvertible(v) ==
    \/ v.t \in {"null", "list", "dict"}
    \/ v.t = "str" /\ ~IsTimestamp(v)
    \/ v.mag # "fin"

C8_ConverterTotal ==
    pc = "conv_return" =>
        /\ conv_result.kind \in {"value", "None"}
        /\ Unconvertible(timestamp) => conv_result.kind = "None"

\* C9: the counts equal the numbers of elements emitted; each summary
\* warning is issued exactly when its count is zero; the builder still
\* returns the document, and, the write succeeding, the file is written
\* and the status is 0.
C9_CountsAndWarnings ==
    /\ channel_count = Cardinality(Channels)
    /\ program_count = Cardinality(Programmes)
    /\ (pc = "done" /\ data = "channels_list") =>
          /\ xmltv_tree = "tree"
          /\ "no_channels" \in warnings <=> Channels = {}
          /\ "no_programs" \in warnings <=> Programmes = {}
          /\ written = "ok" => (file = "new" /\ exit_status = "0")

=============================================================================
